---- MODULE Spec2Model ----
(***************************************************************************)
(* A model of the two simulations of script.js:                            *)
(*   - TensorNetworkAnimation: the charged-particle field on the canvas;   *)
(*   - BlochSphereIcon: the pointer-following unit vector of the icon.     *)
(*                                                                         *)
(* JavaScript numbers are IEEE doubles.  The model keeps every number as   *)
(* an integer count of 1/scale (fixed point): PU = 1000 units per pixel    *)
(* for the particle field, SU = 42000 units per 1.0 for the sphere.  Sums  *)
(* and differences are exact; products, quotients, square roots and exp    *)
(* round to the grid.  NaN and the two infinities are distinct values that *)
(* the operations propagate the way IEEE arithmetic does.                  *)
(***************************************************************************)
EXTENDS Integers, Sequences, FiniteSets, TLC

(***************************************************************************)
(* Fixed-point arithmetic                                                  *)
(***************************************************************************)
NaN == -(2^30)
PosInf == 2^30
NegInf == -(2^30) - 1

Finite(a) == a # NaN /\ a # PosInf /\ a # NegInf

Abs(a) == IF a < 0 THEN -a ELSE a
Sgn(a) == IF a < 0 THEN -1 ELSE IF a > 0 THEN 1 ELSE 0

\* a + b and a - b of two numbers neither of which is infinite.
Add(a, b) == IF a = NaN \/ b = NaN THEN NaN ELSE a + b
Sub(a, b) == IF a = NaN \/ b = NaN THEN NaN ELSE a - b

\* IEEE comparisons: every comparison with NaN is false.
Lt(a, b) == a # NaN /\ b # NaN /\ a < b
Gt(a, b) == a # NaN /\ b # NaN /\ a > b
Ge(a, b) == a # NaN /\ b # NaN /\ a >= b

\* round(a * b / s) for a, b >= 0, without forming a * b.
MulNat(a, b, s) ==
  LET qa == a \div s
      ra == a % s
      qb == b \div s
      rb == b % s
  IN qa * qb * s + qa * rb + ra * qb + (ra * rb + s \div 2) \div s

\* The product of two fixed-point numbers of scale s.
Mul(a, b, s) ==
  IF a = NaN \/ b = NaN THEN NaN
  ELSE Sgn(a) * Sgn(b) * MulNat(Abs(a), Abs(b), s)

\* Long division: the quotient (a * s) / b digit by digit, where the scale s
\* is the product of the factors fs.  round = TRUE rounds to nearest,
\* FALSE truncates.
RECURSIVE DivDigits(_, _, _, _, _, _)
DivDigits(acc, r, b, fs, i, round) ==
  IF i > Len(fs)
  THEN IF round /\ 2 * r >= b THEN acc + 1 ELSE acc
  ELSE LET t == r * fs[i]
       IN DivDigits(acc * fs[i] + t \div b, t % b, b, fs, i + 1, round)

DivNat(a, b, fs, round) == DivDigits(a \div b, a % b, b, fs, 1, round)

\* The quotient of two fixed-point numbers: x / 0 is an infinity, 0 / 0 NaN.
Div(a, b, fs) ==
  IF a = NaN \/ b = NaN THEN NaN
  ELSE IF b = 0 THEN (IF a = 0 THEN NaN ELSE IF a > 0 THEN PosInf ELSE NegInf)
  ELSE Sgn(a) * Sgn(b) * DivNat(Abs(a), Abs(b), fs, TRUE)

\* Integer square root by Newton's iteration from above.
RECURSIVE ISqrtFrom(_, _)
ISqrtFrom(n, x) ==
  LET y == (x + n \div x) \div 2
  IN IF y >= x THEN x ELSE ISqrtFrom(n, y)

ISqrt(n) == IF n <= 0 THEN 0 ELSE ISqrtFrom(n, n)

\* Math.sqrt of a fixed-point number v >= 0: floor(sqrt(v * s)), by Newton's
\* iteration on the long division.
RECURSIVE SqrtFrom(_, _, _)
SqrtFrom(v, x, fs) ==
  LET y == (x + DivNat(v, x, fs, FALSE)) \div 2
  IN IF y >= x THEN x ELSE SqrtFrom(v, y, fs)

Sqrt(v, s, fs) ==
  IF v = NaN \/ Lt(v, 0) THEN NaN
  ELSE IF v = 0 THEN 0
  ELSE SqrtFrom(v, IF v > s THEN v ELSE s, fs)

\* Math.sqrt(a*a + b*b): exact in the raw units while the squares fit, on
\* the rounded squares beyond that.
SmallSide == 30000

Hypot(a, b, s, fs) ==
  IF a = NaN \/ b = NaN THEN NaN
  ELSE IF Abs(a) < SmallSide /\ Abs(b) < SmallSide THEN ISqrt(a * a + b * b)
  ELSE Sqrt(Mul(a, a, s) + Mul(b, b, s), s, fs)

\* e^t for t >= 0 by its power series, the terms rounded to the grid.
ExpTerms == 16

RECURSIVE ExpSeries(_, _, _, _, _)
ExpSeries(t, term, k, sum, s) ==
  IF k > ExpTerms \/ term = 0 THEN sum
  ELSE LET next == Mul(term, t, s) \div k
       IN ExpSeries(t, next, k + 1, sum + next, s)

\* Math.exp(-t) for t >= 0.
ExpNeg(t, s, fs) ==
  IF t = NaN THEN NaN
  ELSE Div(s, ExpSeries(t, s, 1, s, s), fs)

(***************************************************************************)
(* TensorNetworkAnimation: configuration (script.js 20-40)                 *)
(***************************************************************************)
\* Units per pixel, and its factors for the long division.
PU == 10 * 10 * 10
PF == <<10, 10, 10>>

PMul(a, b) == Mul(a, b, PU)
PDiv(a, b) == Div(a, b, PF)
PHypot(a, b) == Hypot(a, b, PU, PF)

\* The number of particles the model creates (config.particleCount is 150).
particleCount == 2

mouseRadius == 150 * PU
radiusMin == 3 * PU
radiusMax == 4 * PU
connectionDistance == 150 * PU
particleSpeed == PU \div 2
screeningLength == 100 * PU
coulombStrength == 200 * PU
damping == PU
maxVelocity == 10 * PU
softening == 20 * PU
brownianStrength == PU \div 10
restitution == -((9 * PU) \div 10)
mouseStrength == PU \div 2
half == PU \div 2

\* The value of "no pointer" (null): a value that is no number.
null == -(2^30) - 2
noPointer == [x |-> null, y |-> null]

(***************************************************************************)
(* The host's inputs: viewport sizes, Math.random() draws (numbers of      *)
(* [0, 1) in units of 1/PU) and pointer positions.                         *)
(***************************************************************************)
Viewports ==
  { [width |-> 0, height |-> 0],
    [width |-> 7 * PU, height |-> 7 * PU],
    [width |-> 300 * PU, height |-> 300 * PU] }

RadiusDraws == {0}
XDraws == {0, 500, 750}
YDraws == {0}
VelDraws == {250}
CyanDraws == {250, 750}

\* The six draws of one particle of createParticles, in the code's order.
CreateDraws ==
  [radius : RadiusDraws, x : XDraws, y : YDraws,
   vx : VelDraws, vy : VelDraws, cyan : CyanDraws]

\* The two draws of one updateParticle call.
NoiseDraws == { [nx |-> 250, ny |-> 750], [nx |-> 750, ny |-> 250] }

MousePositions ==
  { [x |-> 3 * PU, y |-> 3 * PU],
    [x |-> 5 * PU, y |-> 4 * PU],
    [x |-> 220 * PU, y |-> 120 * PU] }

\* The model stops after this many frames and this many events.
MaxFrames == 3
MaxEvents == 1

\* The bound on the events where only the pointer's events are followed.
MaxPointerEvents == 2

VARIABLES
  canvas,      \* this.canvas: [width, height]
  particles,   \* this.particles: a sequence of particle records
  mouse,       \* this.mouse: [x, y], each a number or null
  tnPending,   \* frame callbacks registered by requestAnimationFrame, not yet run
  lastFrame,   \* history: what the last animate() computed for each particle
  lines,       \* the lines the last drawConnections() stroked on the canvas
  frames,      \* animate() runs so far
  events       \* resize, mousemove and mouseout events so far

tnVars == <<canvas, particles, mouse, tnPending, lastFrame, lines, frames, events>>

VARIABLES
  sphere,        \* a BlochSphereIcon: [x, y, z, targetX, targetY, targetZ]
  blochPending,  \* its frame callbacks registered and not yet run
  lastMove,      \* history: the offset <<dx, dy>> of the last handleMouseMove
  lastSolve,     \* history: the roots and the targetY it chose, before line 421
  blochFrames,   \* its animate() runs so far
  blochMoves     \* its mousemove events so far

blochVars == <<sphere, blochPending, lastMove, lastSolve, blochFrames, blochMoves>>

vars == <<tnVars, blochVars>>

(***************************************************************************)
(* createParticles (script.js 58-78)                                       *)
(***************************************************************************)
\* A createParticles that kept the old collection.
KeepParticles(old) == old

\* Line 59: this.particles = [].
ResetParticles(old) == << >>

\* Lines 63-76: one particle from its six draws.
NewParticle(cv, d) ==
  LET radius == PMul(d.radius, radiusMax - radiusMin) + radiusMin
      isCyan == d.cyan > half
  IN [ x |-> PMul(d.x, cv.width - radius * 2) + radius,
       y |-> PMul(d.y, cv.height - radius * 2) + radius,
       radius |-> radius,
       vx |-> PMul(d.vx - half, particleSpeed),
       vy |-> PMul(d.vy - half, particleSpeed),
       isCyan |-> isCyan,
       charge |-> IF isCyan THEN 1 ELSE -1,
       ax |-> 0,
       ay |-> 0,
       baseRadius |-> radius ]

\* The collection after createParticles: the push loop of lines 62-77 on the
\* reset collection.  draws[i] holds the draws of the i-th iteration.
CreateParticles(old, cv, draws) ==
  ResetParticles(old) \o [i \in 1..particleCount |-> NewParticle(cv, draws[i])]

(***************************************************************************)
(* calculateForces (script.js 129-171)                                     *)
(***************************************************************************)
\* A calculateForces without the reset of lines 133-136.
KeepAcc(ps) == ps

\* Lines 133-136: the accumulators reset.
ResetAcc(ps) == [i \in 1..Len(ps) |-> [ps[i] EXCEPT !.ax = 0, !.ay = 0]]

\* Lines 144-147: the pair's distance.
PairDist(p1, p2) == PHypot(Sub(p2.x, p1.x), Sub(p2.y, p1.y))

\* Line 150: whether the cutoff skips the pair.
Skipped(p1, p2) == Gt(PairDist(p1, p2), screeningLength * 2)

\* Lines 153-157: forceMag, from the charges, dist and r = dist + softening.
ForceMag(c1, c2, dist, r) ==
  PMul(PDiv(coulombStrength * c1 * c2, PMul(r, r)),
       ExpNeg(PDiv(dist, screeningLength), PU, PF))

\* Lines 160-161: <<fx, fy>>.
ForceComponents(dx, dy, dist, forceMag) ==
  << PMul(PDiv(dx, dist), forceMag), PMul(PDiv(dy, dist), forceMag) >>

ForceAt(p1, p2, dist) ==
  ForceComponents(Sub(p2.x, p1.x), Sub(p2.y, p1.y), dist,
                  ForceMag(p1.charge, p2.charge, dist, Add(dist, softening)))

\* Lines 144-161: the force <<fx, fy>> of the pair (p1, p2).
PairForce(p1, p2) == ForceAt(p1, p2, PairDist(p1, p2))

\* A variant of lines 165-168 with += for p1 and -= for p2.
ApplyForceReversed(ps, i, j, f) ==
  [ps EXCEPT ![i].ax = Add(@, f[1]), ![i].ay = Add(@, f[2]),
             ![j].ax = Sub(@, f[1]), ![j].ay = Sub(@, f[2])]

\* Lines 165-168: the force f applied to the two particles of the pair.
ApplyForce(ps, i, j, f) ==
  [ps EXCEPT ![i].ax = Sub(@, f[1]), ![i].ay = Sub(@, f[2]),
             ![j].ax = Add(@, f[1]), ![j].ay = Add(@, f[2])]

ApplyPair(ps, i, j) == ApplyForce(ps, i, j, PairForce(ps[i], ps[j]))

\* Lines 139-170: the double loop, from the pair (i, j) on.
RECURSIVE PairLoop(_, _, _)
PairLoop(ps, i, j) ==
  IF i > Len(ps) THEN ps
  ELSE IF j > Len(ps) THEN PairLoop(ps, i + 1, i + 2)
  ELSE IF Skipped(ps[i], ps[j]) THEN PairLoop(ps, i, j + 1)
  ELSE PairLoop(ApplyPair(ps, i, j), i, j + 1)

CalculateForces(ps) == PairLoop(ResetAcc(ps), 1, 2)

(***************************************************************************)
(* drawConnections (script.js 173-198)                                     *)
(***************************************************************************)
\* Lines 178-180: the pair's distance.
Distance(p, q) == PHypot(Sub(p.x, q.x), Sub(p.y, q.y))

\* Line 182: distance < config.connectionDistance.
Connected(distance) == Lt(distance, connectionDistance)

\* A variant of lines 186-187 with the two colours exchanged.
LineColorSwapped(chargeProduct) == IF chargeProduct < 0 THEN "purple" ELSE "cyan"

\* Lines 186-187: the colour of the line, from the product of the charges.
LineColor(chargeProduct) == IF chargeProduct < 0 THEN "cyan" ELSE "purple"

\* Lines 189-194: the line stroked for the pair (i, j).
Line(ps, i, j) == [i |-> i, j |-> j, color |-> LineColor(ps[i].charge * ps[j].charge)]

\* Lines 176-177: the pairs the double loop visits.
Pairs(n) == {pair \in (1..n) \X (1..n) : pair[1] < pair[2]}

\* Lines 176-196: the lines drawn for the particles ps.
DrawConnections(ps) ==
  {Line(ps, pair[1], pair[2]) :
     pair \in {q \in Pairs(Len(ps)) : Connected(Distance(ps[q[1]], ps[q[2]]))}}

(***************************************************************************)
(* updateParticle (script.js 200-256)                                      *)
(***************************************************************************)
\* Line 211: the pointer's force at the given distance.
PointerForce(distance) ==
  PMul(PDiv(mouseRadius - distance, mouseRadius), mouseStrength)

\* A variant of lines 210-214 without the test distance < mouse.radius.
PullAtAnyRange(dx, dy, distance) ==
  IF Gt(distance, 0)
  THEN << PMul(PDiv(dx, distance), PointerForce(distance)),
          PMul(PDiv(dy, distance), PointerForce(distance)) >>
  ELSE << 0, 0 >>

\* Lines 210-214: what is subtracted from (ax, ay), as <<sx, sy>>.
PullAt(dx, dy, distance) ==
  IF Lt(distance, mouseRadius) /\ Gt(distance, 0)
  THEN << PMul(PDiv(dx, distance), PointerForce(distance)),
          PMul(PDiv(dy, distance), PointerForce(distance)) >>
  ELSE << 0, 0 >>

PullFrom(dx, dy) == PullAt(dx, dy, PHypot(dx, dy))

\* An updateParticle without the test of line 205: null coerces to 0.
PullIgnoringAbsence(p, m) ==
  IF m.x # null /\ m.y # null
  THEN PullFrom(Sub(p.x, m.x), Sub(p.y, m.y))
  ELSE PullFrom(p.x, p.y)

\* Lines 205-215: the pointer's pull on particle p, <<0, 0>> with no pointer.
PointerPull(p, m) ==
  IF m.x # null /\ m.y # null
  THEN PullFrom(Sub(p.x, m.x), Sub(p.y, m.y))
  ELSE << 0, 0 >>

\* Lines 231-234: the velocity of the given speed clamped to maxVelocity.
ClampAt(vx, vy, speed) ==
  IF Gt(speed, maxVelocity)
  THEN << PMul(PDiv(vx, speed), maxVelocity), PMul(PDiv(vy, speed), maxVelocity) >>
  ELSE << vx, vy >>

\* Lines 230-234.
ClampSpeed(vx, vy) == ClampAt(vx, vy, PHypot(vx, vy))

\* A bounce that loses no speed.
BounceElastic(pos, vel, radius, dim) ==
  IF Lt(pos, radius) THEN << radius, -vel >>
  ELSE IF Gt(pos, dim - radius) THEN << dim - radius, -vel >>
  ELSE << pos, vel >>

\* Lines 241-247 (and 249-255): one axis of the bounce.  pos and vel are the
\* coordinate and velocity after the move, dim the canvas dimension; the
\* result is <<coordinate, velocity>>.
Bounce(pos, vel, radius, dim) ==
  IF Lt(pos, radius) THEN << radius, PMul(vel, restitution) >>
  ELSE IF Gt(pos, dim - radius) THEN << dim - radius, PMul(vel, restitution) >>
  ELSE << pos, vel >>

\* Lines 218-227: one velocity component with the acceleration a and the
\* draw d added, damped.
Kick(v, a, d) == PMul(Add(Add(v, a), PMul(d - half, brownianStrength)), damping)

\* Everything one updateParticle call computes: pull is the pointer's pull,
\* a the acceleration integrated, u the velocity before the clamp, cl after
\* it, mv the position after the move, bx and by the two bounces; updated
\* says that the call was made.
StepRecord(p, pull, a, u, cl, mv, bx, by) ==
  [ updated |-> TRUE,
    fromx |-> p.x, fromy |-> p.y, charge |-> p.charge,
    fax |-> p.ax, fay |-> p.ay,
    pullx |-> pull[1], pully |-> pull[2],
    ax |-> a[1], ay |-> a[2],
    ux |-> u[1], uy |-> u[2],
    cvx |-> cl[1], cvy |-> cl[2],
    mx |-> mv[1], my |-> mv[2],
    x |-> bx[1], vx |-> bx[2], y |-> by[1], vy |-> by[2] ]

\* Lines 241-255.
AfterMove(p, cv, pull, a, u, cl, mv) ==
  StepRecord(p, pull, a, u, cl, mv,
             Bounce(mv[1], cl[1], p.radius, cv.width),
             Bounce(mv[2], cl[2], p.radius, cv.height))

\* Lines 237-238.
AfterClamp(p, cv, pull, a, u, cl) ==
  AfterMove(p, cv, pull, a, u, cl, << Add(p.x, cl[1]), Add(p.y, cl[2]) >>)

\* Lines 230-234.
AfterKick(p, cv, pull, a, u) ==
  AfterClamp(p, cv, pull, a, u, ClampSpeed(u[1], u[2]))

\* Lines 218-227.
AfterPull(p, cv, n, pull, a) ==
  AfterKick(p, cv, pull, a, << Kick(p.vx, a[1], n.nx), Kick(p.vy, a[2], n.ny) >>)

\* Lines 212-213.
WithPull(p, cv, n, pull) ==
  AfterPull(p, cv, n, pull, << Sub(p.ax, pull[1]), Sub(p.ay, pull[2]) >>)

\* The intermediate values of one updateParticle call on particle p (whose
\* ax, ay hold the accumulated pair forces), with the pointer m and the
\* draws n.
UpdateSteps(p, cv, m, n) == WithPull(p, cv, n, PointerPull(p, m))

\* An updateParticle that also multiplies the charge by the restitution's
\* sign, as the bounce does the velocity.
UpdatedFlipping(p, u) ==
  [p EXCEPT !.ax = u.ax, !.ay = u.ay, !.vx = u.vx, !.vy = u.vy,
            !.x = u.x, !.y = u.y, !.charge = -p.charge]

\* The particle as the call leaves it.
Updated(p, u) ==
  [p EXCEPT !.ax = u.ax, !.ay = u.ay, !.vx = u.vx, !.vy = u.vy,
            !.x = u.x, !.y = u.y]

UpdateParticle(p, cv, m, n) == Updated(p, UpdateSteps(p, cv, m, n))

(***************************************************************************)
(* animate (script.js 258-277); of its drawing, what can end it            *)
(***************************************************************************)
\* Lines 110-113 of drawParticle: createRadialGradient takes finite numbers
\* only and throws a TypeError for a position that is NaN or infinite.  u is
\* a particle as updateParticle left it.
DrawThrows(u) == ~Finite(u.x) \/ ~Finite(u.y)

\* What updateParticle would compute for every particle of fs, the collection
\* calculateForces left.  noise[i] holds the draws of the i-th update.
TraceAll(fs, cv, m, noise) ==
  [i \in 1..Len(fs) |-> UpdateSteps(fs[i], cv, m, noise[i])]

\* Lines 271-274: the index of the first particle, from i on, whose drawing
\* throws; Len(tr) + 1 when none does.
RECURSIVE FirstThrow(_, _)
FirstThrow(tr, i) ==
  IF i > Len(tr) THEN i
  ELSE IF DrawThrows(tr[i]) THEN i
  ELSE FirstThrow(tr, i + 1)

Aborted(tr) == FirstThrow(tr, 1) <= Len(tr)

\* Lines 271-274: the loop updates and draws the particles in order and ends
\* at the first drawing that throws, at index k.
UpdateAll(fs, tr, k) ==
  [i \in 1..Len(fs) |-> IF i <= k THEN Updated(fs[i], tr[i]) ELSE fs[i]]

MarkTrace(tr, k) == [i \in 1..Len(tr) |-> [tr[i] EXCEPT !.updated = (i <= k)]]

LoopResult(fs, tr) == UpdateAll(fs, tr, FirstThrow(tr, 1))

LoopFrom(fs, cv, m, noise) == LoopResult(fs, TraceAll(fs, cv, m, noise))

TraceResult(tr) == MarkTrace(tr, FirstThrow(tr, 1))

\* Lines 268-274: the particles after the frame, what the frame computed, and
\* whether an exception ended it.
FrameParticles(ps, cv, m, noise) == LoopFrom(CalculateForces(ps), cv, m, noise)

\* A variant of lines 268-274 that calls calculateForces() inside the loop,
\* before each updateParticle: the forces on a particle then come from the
\* positions the earlier particles have moved to.
InterleavedStep(fs, cv, m, noise, i) == UpdateSteps(fs[i], cv, m, noise[i])

InterleavedUpdate(fs, i, u) == [fs EXCEPT ![i] = Updated(fs[i], u)]

RECURSIVE InterleavedFrom(_, _, _, _, _, _)
InterleavedFrom(ps, cv, m, noise, i, tr) ==
  IF i > Len(ps) THEN tr
  ELSE InterleavedFrom(
         InterleavedUpdate(CalculateForces(ps), i,
                           InterleavedStep(CalculateForces(ps), cv, m, noise, i)),
         cv, m, noise, i + 1,
         Append(tr, InterleavedStep(CalculateForces(ps), cv, m, noise, i)))

FrameTraceInterleaved(ps, cv, m, noise) ==
  TraceResult(InterleavedFrom(ps, cv, m, noise, 1, << >>))

FrameTrace(ps, cv, m, noise) ==
  TraceResult(TraceAll(CalculateForces(ps), cv, m, noise))

FrameThrows(ps, cv, m, noise) == Aborted(TraceAll(CalculateForces(ps), cv, m, noise))

\* Line 276: one callback consumed, one registered.
Reschedule(pending) == pending - 1 + 1

\* The pending callbacks after an animate() run: line 276 is not reached when
\* the frame has thrown.
AfterFrame(pending, thrown) == IF thrown THEN pending - 1 ELSE Reschedule(pending)

\* A frame callback runs animate(): what it does to the field.
AnimateStep ==
  /\ tnPending > 0
  /\ frames < MaxFrames
  /\ \E noise \in [1..Len(particles) -> NoiseDraws] :
       /\ particles' = FrameParticles(particles, canvas, mouse, noise)
       /\ lastFrame' = FrameTrace(particles, canvas, mouse, noise)
       /\ lines' = DrawConnections(particles)
       /\ tnPending' = AfterFrame(tnPending, FrameThrows(particles, canvas, mouse, noise))
  /\ frames' = frames + 1
  /\ UNCHANGED <<canvas, mouse, events>>

Animate == AnimateStep /\ UNCHANGED blochVars

(***************************************************************************)
(* The event handlers of bindEvents (script.js 80-96)                      *)
(***************************************************************************)
\* Lines 81-84: resize() and createParticles(); setting the canvas's size
\* clears what was drawn on it.
Resize ==
  /\ events < MaxEvents
  /\ \E vp \in Viewports, draws \in [1..particleCount -> CreateDraws] :
       /\ canvas' = vp
       /\ particles' = CreateParticles(particles, vp, draws)
  /\ lastFrame' = << >>
  /\ lines' = {}
  /\ events' = events + 1
  /\ UNCHANGED <<mouse, tnPending, frames>>
  /\ UNCHANGED blochVars

\* Lines 86-89 for the event e, while fewer than bound events have been
\* handled: what the handler does to the field.
MouseMoveStep(e, bound) ==
  /\ events < bound
  /\ mouse' = [x |-> e.x, y |-> e.y]
  /\ events' = events + 1
  /\ UNCHANGED <<canvas, particles, tnPending, lastFrame, lines, frames>>

MouseMoveWithin(bound) ==
  \E e \in MousePositions : MouseMoveStep(e, bound) /\ UNCHANGED blochVars

MouseMove == MouseMoveWithin(MaxEvents)

\* Lines 91-94, while fewer than bound events have been handled.
MouseOutWithin(bound) ==
  /\ events < bound
  /\ mouse' = noPointer
  /\ events' = events + 1
  /\ UNCHANGED <<canvas, particles, tnPending, lastFrame, lines, frames>>
  /\ UNCHANGED blochVars

MouseOut == MouseOutWithin(MaxEvents)

\* The same two handlers where only the pointer's events are followed.
PointerMove == MouseMoveWithin(MaxPointerEvents)

PointerOut == MouseOutWithin(MaxPointerEvents)

(***************************************************************************)
(* The state after new TensorNetworkAnimation(...) (script.js 16-51):      *)
(* resize(), createParticles(), bindEvents() and the first animate().      *)
(***************************************************************************)
TNInitWith(vp, draws, noise) ==
  /\ canvas = vp
  /\ mouse = noPointer
  /\ particles = FrameParticles(CreateParticles(<< >>, vp, draws), vp, noPointer, noise)
  /\ lastFrame = FrameTrace(CreateParticles(<< >>, vp, draws), vp, noPointer, noise)
  /\ lines = DrawConnections(CreateParticles(<< >>, vp, draws))
  /\ tnPending =
       AfterFrame(1, FrameThrows(CreateParticles(<< >>, vp, draws), vp, noPointer, noise))
  /\ frames = 1
  /\ events = 0

TNInit ==
  \E vp \in Viewports, draws \in [1..particleCount -> CreateDraws],
     noise \in [1..particleCount -> NoiseDraws] :
    TNInitWith(vp, draws, noise)

\* One constructed field, for the behaviours that follow the icon alone.
TNQuiet ==
  TNInitWith([width |-> 300 * PU, height |-> 300 * PU],
             [i \in 1..particleCount |->
                [radius |-> 0, x |-> (250 * i) % PU, y |-> 0, vx |-> 250, vy |-> 250,
                 cyan |-> IF i = 1 THEN 250 ELSE 750]],
             [i \in 1..particleCount |-> [nx |-> 250, ny |-> 750]])

TNNext == Animate \/ Resize \/ MouseMove \/ MouseOut

(***************************************************************************)
(* BlochSphereIcon                                                         *)
(***************************************************************************)
SU == 42 * 10 * 10 * 10
SF == <<42, 10, 10, 10>>

SMul(a, b) == Mul(a, b, SU)
SDiv(a, b) == Div(a, b, SF)
SSqrt(v) == Sqrt(v, SU, SF)

\* The constants of handleMouseMove, animate and cartesianToScreen.
initialX == (707 * SU) \div 1000
initialZ == (707 * SU) \div 1000
a == (3 * SU) \div 10
b == (9 * SU) \div 10
c == (2 * SU) \div 10
lerp == (8 * SU) \div 100
radiusViewBox == 22
viewBoxWidth == 96
viewBoxHeight == 84
centerViewBox == 30 * SU

Vec(x, y, z) == [x |-> x, y |-> y, z |-> z]

\* Math.sqrt(x*x + y*y + z*z)
Len3(v) == SSqrt(Add(Add(SMul(v.x, v.x), SMul(v.y, v.y)), SMul(v.z, v.z)))

\* if (len > 0) { x /= len; y /= len; z /= len; }
NormaliseBy(v, len) ==
  IF Gt(len, 0) THEN Vec(SDiv(v.x, len), SDiv(v.y, len), SDiv(v.z, len)) ELSE v

Normalise(v) == NormaliseBy(v, Len3(v))

\* cartesianToScreen(x, y, z, radius), in viewBox units.
CartesianToScreen(v, radius) ==
  [x |-> centerViewBox + SMul(SMul(v.x, radius), b) + SMul(SMul(v.y, radius), a),
   y |-> centerViewBox - SMul(v.z, radius) + SMul(SMul(v.y, radius), c)]

\* The same projection in units of the radius about the centre: the offset
\* <<dx, dy>> that handleMouseMove inverts.
Project(v) ==
  [dx |-> CartesianToScreen(v, SU).x - centerViewBox,
   dy |-> CartesianToScreen(v, SU).y - centerViewBox]

\* The quadratic A*y*y + B*y + C = 0 in the depth y.
QuadA == SDiv(SMul(a, a), SMul(b, b)) + SU + SMul(c, c)
QuadB(dx, dy) == SDiv(SMul(-2 * a, dx), SMul(b, b)) - SMul(2 * c, dy)
QuadC(dx, dy) == SDiv(SMul(dx, dx), SMul(b, b)) + SMul(dy, dy) - SU
Discriminant(dx, dy) ==
  SMul(QuadB(dx, dy), QuadB(dx, dy)) - SMul(4 * QuadA, QuadC(dx, dy))

Y1(B, sqrtD) == SDiv(-B + sqrtD, 2 * QuadA)
Y2(B, sqrtD) == SDiv(-B - sqrtD, 2 * QuadA)
Max(p, q) == IF p >= q THEN p ELSE q

\* A handleMouseMove that always took the second root.
SecondRoot(y1, y2) == y2

\* The root handleMouseMove would choose if it preferred the far side.
FarRoot(y1, y2) == IF y2 >= 0 THEN y2 ELSE y1

\* A handleMouseMove that took the second root whenever the first is negative.
SecondWhenNegative(y1, y2) == IF y1 >= 0 THEN y1 ELSE y2

\* y1 >= 0 ? y1 : (y2 >= 0 ? y2 : Math.max(y1, y2))
ChooseRoot(y1, y2) == IF y1 >= 0 THEN y1 ELSE IF y2 >= 0 THEN y2 ELSE Max(y1, y2)

\* The back-substitution with the sign of c*y reversed.
BackSubstituteMirrored(dx, dy, ty) == Vec(SDiv(dx - SMul(a, ty), b), ty, -dy - SMul(c, ty))

\* targetX = (dx - a*targetY) / b;  targetZ = -dy + c*targetY
BackSubstitute(dx, dy, ty) == Vec(SDiv(dx - SMul(a, ty), b), ty, -dy + SMul(c, ty))

RootsTarget(dx, dy, B, sqrtD) ==
  Normalise(BackSubstitute(dx, dy, ChooseRoot(Y1(B, sqrtD), Y2(B, sqrtD))))

\* The branch discriminant >= 0.
SphereTarget(dx, dy) ==
  RootsTarget(dx, dy, QuadB(dx, dy), SSqrt(Discriminant(dx, dy)))

\* The edge branch without its normalisation.
EdgeUnscaled(ndx, ndy) == Vec(SDiv(ndx, b), 0, -ndy)

\* targetX = ndx / 0.9; targetZ = -ndy; targetY = 0; then the normalisation
\* over x and z.
EdgeFrom(ndx, ndy) == Normalise(Vec(SDiv(ndx, b), 0, -ndy))

EdgeAt(dx, dy, len2D, old) ==
  IF Gt(len2D, 0) THEN EdgeFrom(SDiv(dx, len2D), SDiv(dy, len2D)) ELSE old

\* The branch discriminant < 0.
EdgeTarget(dx, dy, old) == EdgeAt(dx, dy, Hypot(dx, dy, SU, SF), old)

\* An offset that is not finite.  With a NaN coordinate the discriminant and
\* len2D are NaN and no branch assigns.  With an infinite coordinate C and
\* B*B are infinite, the discriminant is Infinity - Infinity = NaN, len2D is
\* Infinity, and the edge branch divides: Infinity / Infinity is NaN, a finite
\* coordinate over Infinity is 0; the length is NaN and nothing is normalised.
EdgeOfInfinite(d) == IF Finite(d) THEN 0 ELSE NaN

UnboundedTarget(dx, dy, old) ==
  IF dx = NaN \/ dy = NaN THEN old
  ELSE Vec(EdgeOfInfinite(dx), 0, EdgeOfInfinite(dy))

\* Lines 411-416: the two roots and the targetY chosen among them.
SolveRecord(y1, y2) == [solved |-> TRUE, y1 |-> y1, y2 |-> y2, targetY |-> ChooseRoot(y1, y2)]

SolveWith(B, sqrtD) == SolveRecord(Y1(B, sqrtD), Y2(B, sqrtD))

noSolve == [solved |-> FALSE, y1 |-> 0, y2 |-> 0, targetY |-> 0]

\* What the branch of line 409 computed for the offset <<dx, dy>>, noSolve
\* when the branch is not taken.
SolveFor(dx, dy) ==
  IF ~Finite(dx) \/ ~Finite(dy) THEN noSolve
  ELSE IF Discriminant(dx, dy) >= 0
       THEN SolveWith(QuadB(dx, dy), SSqrt(Discriminant(dx, dy)))
  ELSE noSolve

\* Lines 400-451: the target vector for the offset <<dx, dy>>.
TargetFor(dx, dy, old) ==
  IF ~Finite(dx) \/ ~Finite(dy) THEN UnboundedTarget(dx, dy, old)
  ELSE IF Discriminant(dx, dy) >= 0 THEN SphereTarget(dx, dy)
  ELSE EdgeTarget(dx, dy, old)

Target(s) == Vec(s.targetX, s.targetY, s.targetZ)
Shown(s) == Vec(s.x, s.y, s.z)

\* A handleMouseMove that put the displayed vector on the target at once.
WithTargetShown(s, t) ==
  [s EXCEPT !.targetX = t.x, !.targetY = t.y, !.targetZ = t.z,
            !.x = t.x, !.y = t.y, !.z = t.z]

WithTarget(s, t) == [s EXCEPT !.targetX = t.x, !.targetY = t.y, !.targetZ = t.z]
WithShown(s, v) == [s EXCEPT !.x = v.x, !.y = v.y, !.z = v.z]

\* Lines 358-375: the offset of the pointer from the centre of the icon, in
\* units of its radius on screen.
Min(p, q) == IF p <= q THEN p ELSE q
RadiusScreen(rect) ==
  Min(SMul(SDiv(radiusViewBox * SU, viewBoxWidth * SU), rect.width),
      SMul(SDiv(radiusViewBox * SU, viewBoxHeight * SU), rect.height))
CenterScreenX(rect) == rect.left + SMul(rect.width, SU \div 2)
CenterScreenY(rect) == rect.top + SMul(rect.height, SU \div 2)
OffsetX(e, rect) == SDiv(e.clientX - CenterScreenX(rect), RadiusScreen(rect))
OffsetY(e, rect) == SDiv(e.clientY - CenterScreenY(rect), RadiusScreen(rect))

\* x += (targetX - x) * lerp
\* A variant of lines 606-608 with -= for +=.
LerpAway(x, target) == Sub(x, Mul(Sub(target, x), lerp, SU))

Lerp(x, target) == Add(x, Mul(Sub(target, x), lerp, SU))

LerpAll(s) ==
  Vec(Lerp(s.x, s.targetX), Lerp(s.y, s.targetY), Lerp(s.z, s.targetZ))

\* Lines 604-616 of animate().
StepSphere(s) == WithShown(s, Normalise(LerpAll(s)))

\* The fields the constructor assigns (lines 334-341).
NewSphere ==
  [x |-> initialX, y |-> 0, z |-> initialZ,
   targetX |-> initialX, targetY |-> 0, targetZ |-> initialZ]

noMove == [dx |-> null, dy |-> null]

(***************************************************************************)
(* The icon's inputs and callbacks                                         *)
(***************************************************************************)
MaxBlochFrames == 3
MaxMoves == 2

\* getBoundingClientRect() of the container: the icon laid out at 96 x 84
\* pixels, and the empty rectangle of a container that is not rendered.
Rects ==
  { [left |-> 100 * SU, top |-> 50 * SU, width |-> 96 * SU, height |-> 84 * SU],
    [left |-> 100 * SU, top |-> 50 * SU, width |-> 0, height |-> 0] }

\* Pointer positions of mousemove events, in pixels.
ClientXs == {100 * SU, 148 * SU, 159 * SU, 258 * SU}
ClientYs == {50 * SU, 92 * SU, 114 * SU}
Pointers == [clientX : ClientXs, clientY : ClientYs]

\* Unit vectors with rational coordinates, every sign and order of them.
Signs == {-1, 1}
Triples ==
  { <<0, 0, 1>>, <<1, 2, 2>>, <<2, 3, 6>>, <<0, 3, 4>> }
Denominator(t) == ISqrt(t[1] * t[1] + t[2] * t[2] + t[3] * t[3])
Orders == { <<1, 2, 3>>, <<1, 3, 2>>, <<2, 1, 3>>, <<2, 3, 1>>, <<3, 1, 2>>, <<3, 2, 1>> }
UnitVectors ==
  { Vec((sx * t[o[1]] * SU) \div Denominator(t),
        (sy * t[o[2]] * SU) \div Denominator(t),
        (sz * t[o[3]] * SU) \div Denominator(t)) :
      t \in Triples, o \in Orders, sx \in Signs, sy \in Signs, sz \in Signs }

\* Offsets far from the icon and near its outline.
OutsideOffsets ==
  { [dx |-> x * (SU \div 10), dy |-> y * (SU \div 10)] :
      x \in {-50, -12, 0, 9, 12, 50}, y \in {-50, -11, 0, 8, 11, 50} }

Offsets == { Project(v) : v \in UnitVectors } \cup OutsideOffsets

\* handleMouseMove(e), lines 356-452, with the container at rect: what it
\* does to the icon.
HandleStep(e, rect) ==
  /\ blochMoves < MaxMoves
  /\ sphere' = WithTarget(sphere,
                 TargetFor(OffsetX(e, rect), OffsetY(e, rect), Target(sphere)))
  /\ lastMove' = [dx |-> OffsetX(e, rect), dy |-> OffsetY(e, rect)]
  /\ lastSolve' = SolveFor(OffsetX(e, rect), OffsetY(e, rect))
  /\ blochMoves' = blochMoves + 1
  /\ UNCHANGED <<blochPending, blochFrames>>

HandleMouseMove ==
  \E e \in Pointers, rect \in Rects : HandleStep(e, rect) /\ UNCHANGED tnVars

\* handleMouseMove from line 377 on, for an event whose offset is <<dx, dy>>.
PointerAt ==
  /\ \E o \in Offsets :
       /\ sphere' = WithTarget(sphere, TargetFor(o.dx, o.dy, Target(sphere)))
       /\ lastMove' = o
       /\ lastSolve' = SolveFor(o.dx, o.dy)
  /\ UNCHANGED <<blochPending, blochFrames, blochMoves>>
  /\ UNCHANGED tnVars

\* animate(), lines 602-629: what one frame callback does to the icon.
BlochAnimateStep ==
  /\ blochPending > 0
  /\ blochFrames < MaxBlochFrames
  /\ sphere' = StepSphere(sphere)
  /\ blochPending' = Reschedule(blochPending)
  /\ blochFrames' = blochFrames + 1
  /\ UNCHANGED <<lastMove, lastSolve, blochMoves>>

BlochAnimate == BlochAnimateStep /\ UNCHANGED tnVars

\* The icon after its constructor, which ends with the first animate().
BlochInit ==
  /\ sphere = StepSphere(NewSphere)
  /\ blochPending = 1
  /\ lastMove = noMove
  /\ lastSolve = noSolve
  /\ blochFrames = 1
  /\ blochMoves = 0

BlochNext == HandleMouseMove \/ BlochAnimate

(***************************************************************************)
(* Specifications                                                          *)
(***************************************************************************)
\* The particle field's callbacks, beside a constructed icon at rest.
InitTN == TNInit /\ BlochInit

SpecTN == InitTN /\ [][TNNext]_vars

\* The icon's callbacks, beside a constructed field at rest.
InitBloch == TNQuiet /\ BlochInit

SpecBloch == InitBloch /\ [][BlochNext]_vars

\* The inverse projection of handleMouseMove applied to chosen offsets.
SpecProject == InitBloch /\ [][PointerAt]_vars

\* The icon's frames run until the displayed vector rests, after at most
\* MaxEaseMoves pointer events at chosen offsets: on the outline opposite the
\* initial vector, in front, and outside to the right, above and below.
MaxEaseMoves == 2

EaseOffsets ==
  { [dx |-> -(18 * SU) \div 10, dy |-> 2 * SU],
    [dx |-> (3 * SU) \div 10, dy |-> (2 * SU) \div 10],
    [dx |-> 2 * SU, dy |-> 0],
    [dx |-> 0, dy |-> -2 * SU],
    [dx |-> 0, dy |-> 2 * SU] }

\* handleMouseMove from line 377 on, for an event at one of these offsets.
EaseMove ==
  /\ blochMoves < MaxEaseMoves
  /\ \E o \in EaseOffsets :
       /\ sphere' = WithTarget(sphere, TargetFor(o.dx, o.dy, Target(sphere)))
       /\ lastMove' = o
       /\ lastSolve' = SolveFor(o.dx, o.dy)
  /\ blochMoves' = blochMoves + 1
  /\ UNCHANGED <<blochPending, blochFrames>>
  /\ UNCHANGED tnVars

\* A frame callback is run: the count of the frames, kept modulo
\* MaxBlochFrames here, advances.
FrameRuns ==
  /\ blochPending > 0
  /\ blochFrames' = (blochFrames % MaxBlochFrames) + 1

\* animate(), lines 602-629.
EaseFrame ==
  /\ FrameRuns
  /\ sphere' = StepSphere(sphere)
  /\ blochPending' = Reschedule(blochPending)
  /\ UNCHANGED <<lastMove, lastSolve, blochMoves>>
  /\ UNCHANGED tnVars

EaseNext == EaseMove \/ EaseFrame

\* Line 628 registers the next callback in every frame, and the browser runs
\* a registered callback: the frames are weakly fair.
SpecEase == InitBloch /\ [][EaseNext]_vars /\ WF_blochFrames(FrameRuns)

\* The field in a 300 x 300 viewport under frames and the pointer's events.
InitPointer ==
  /\ \E draws \in [1..particleCount -> CreateDraws],
        noise \in [1..particleCount -> NoiseDraws] :
       TNInitWith([width |-> 300 * PU, height |-> 300 * PU], draws, noise)
  /\ BlochInit

PointerNext == Animate \/ PointerMove \/ PointerOut

SpecPointer == InitPointer /\ [][PointerNext]_vars

(***************************************************************************)
(* The page: both simulators under the host's events.  A mousemove reaches *)
(* the icon's listener on document and the field's on window; a display    *)
(* frame runs the pending callbacks of both, the field's first.            *)
(***************************************************************************)
\* Pointer positions on the page, in pixels.
PagePoints == { [x |-> 5, y |-> 4], [x |-> 159, y |-> 92], [x |-> 258, y |-> 114] }

PageMouseMove ==
  \E pt \in PagePoints, rect \in Rects :
    /\ MouseMoveStep([x |-> pt.x * PU, y |-> pt.y * PU], MaxPointerEvents)
    /\ HandleStep([clientX |-> pt.x * SU, clientY |-> pt.y * SU], rect)

PageMouseOut == PointerOut

PageResize == Resize

\* A display frame while both loops run.
PageFrame == AnimateStep /\ BlochAnimateStep

\* A display frame after the field's loop has stopped.
PageFrameIconOnly == tnPending = 0 /\ BlochAnimateStep /\ UNCHANGED tnVars

\* The page after DOMContentLoaded (lines 879-885): the field is constructed
\* first, the icon after it.
InitPage == TNQuiet /\ tnPending = 1 /\ BlochInit

PageNext ==
  PageFrame \/ PageFrameIconOnly \/ PageMouseMove \/ PageMouseOut \/ PageResize

SpecPage == InitPage /\ [][PageNext]_vars

(***************************************************************************)
(* Properties of the inverse projection (SpecProject)                      *)
(***************************************************************************)
\* Tolerances, in units of 1/SU: the model's grid stands for the rounding of
\* the doubles.
RoundTripTol == 8
UnitTol == 4
ProjectTol == 2

Close(p, q, tol) == Finite(p) /\ Finite(q) /\ Abs(p - q) <= tol

Near(u, v, tol) == Close(u.x, v.x, tol) /\ Close(u.y, v.y, tol) /\ Close(u.z, v.z, tol)

IsUnit(v) == Close(Len3(v), SU, UnitTol)

Moved == lastMove # noMove

MovedTo(dx, dy) == lastMove = [dx |-> dx, dy |-> dy]

MoveSolved ==
  /\ Moved
  /\ Finite(lastMove.dx) /\ Finite(lastMove.dy)
  /\ Discriminant(lastMove.dx, lastMove.dy) >= 0

MoveUnsolved ==
  /\ Moved
  /\ Finite(lastMove.dx) /\ Finite(lastMove.dy)
  /\ Discriminant(lastMove.dx, lastMove.dy) < 0

\* The two unit vectors with one projection differ by a multiple of
\* (-5, 15, 3), the direction the projection flattens; the one on the
\* viewer's side has the larger y.
Front(v) == 15 * v.y + 3 * v.z >= 5 * v.x

RoundTrip(v) ==
  (lastMove = Project(v) /\ MoveSolved) => Near(Target(sphere), v, RoundTripTol)

\* C5, as stated: every unit vector (x, y, z) is recovered from its projection
\* by the branch discriminant >= 0 of handleMouseMove.
C5_RoundTripAny == \A v \in UnitVectors : RoundTrip(v)

\* C5, amended: a unit vector on the viewer's side of the outline
\* (15y + 3z >= 5x) is recovered from its projection, to the model's grid.
C5_RoundTripFront == \A v \in UnitVectors : Front(v) => RoundTrip(v)

\* C5 witness: the offset of (2, 3, -6)/7, which projects outside the unit
\* circle, has been inverted.
C5_Witness ==
  /\ lastMove = Project(Vec((2 * SU) \div 7, (3 * SU) \div 7, (-6 * SU) \div 7))
  /\ MoveSolved
  /\ sphere.targetY > 0

Magnitude(dx, dy) == Hypot(dx, dy, SU, SF)

OnRim(v) == v.y = 0 /\ IsUnit(v)

\* C6, as stated: every offset of magnitude above 1 gives a unit target whose
\* y is exactly 0.
C6_RimBeyondUnitCircle ==
  (Moved /\ Finite(lastMove.dx) /\ Finite(lastMove.dy)
     /\ Magnitude(lastMove.dx, lastMove.dy) > SU)
    => OnRim(Target(sphere))

\* C6, amended: every offset whose discriminant is negative gives a unit
\* target whose y is exactly 0; dx = 5, dy = 0 gives (1, 0, 0).
C6_RimOutsideOutline ==
  /\ MoveUnsolved => OnRim(Target(sphere))
  /\ MovedTo(5 * SU, 0) => Target(sphere) = Vec(SU, 0, 0)

\* C6 witness: the pointer at dx = 5, dy = 0 has been handled by the branch
\* discriminant < 0.
C6_Witness == MovedTo(5 * SU, 0) /\ MoveUnsolved /\ sphere.targetX = SU

Reprojects(v, o) == Close(Project(v).dx, o.dx, ProjectTol) /\ Close(Project(v).dy, o.dy, ProjectTol)

\* C10: for every offset with discriminant >= 0 the target is a unit vector
\* and its forward projection is the offset, to the model's grid.
C10_TargetProjectsBack ==
  MoveSolved => (IsUnit(Target(sphere)) /\ Reprojects(Target(sphere), lastMove))

\* C10 witness: an offset off both axes has been inverted to a vector that is
\* not the default orientation.
C10_Witness ==
  /\ MoveSolved
  /\ lastMove.dx # 0 /\ lastMove.dy # 0
  /\ Target(sphere) # Target(NewSphere)

(***************************************************************************)
(* Properties of the icon's callbacks (SpecBloch)                          *)
(***************************************************************************)
\* C7, as stated: the displayed vector and the target vector are unit vectors
\* in every reachable state.
C7_BothUnit == IsUnit(Shown(sphere)) /\ IsUnit(Target(sphere))

(***************************************************************************)
(* Properties of the particle field (SpecTN)                               *)
(***************************************************************************)
Le(p, q) == Ge(q, p)

Particles == 1..Len(particles)

\* C1, as stated: every particle's speed is at most maxVelocity in every
\* reachable state.
C1_SpeedBounded ==
  \A i \in Particles : Le(PHypot(particles[i].vx, particles[i].vy), maxVelocity)

Fits(p) == canvas.width >= 2 * p.radius /\ canvas.height >= 2 * p.radius

Inside(p) ==
  /\ Le(p.radius, p.x) /\ Le(p.x, canvas.width - p.radius)
  /\ Le(p.radius, p.y) /\ Le(p.y, canvas.height - p.radius)

\* C2, as stated and for the viewports that have room for the particle: in
\* every reachable state radius <= x <= width - radius and
\* radius <= y <= height - radius.
C2_InsideCanvas == \A i \in Particles : Fits(particles[i]) => Inside(particles[i])

\* C3: after construction and after any sequence of resizes, frames and
\* pointer events the field holds exactly particleCount particles.
C3_ParticleCount == Len(particles) = particleCount

\* C3 witness: a resize has regenerated the particles after two frames.
C3_Witness == lastFrame = << >> /\ frames >= 2 /\ events >= 1

RECURSIVE SumAx(_, _)
SumAx(fr, i) == IF i > Len(fr) THEN 0 ELSE Add(fr[i].fax, SumAx(fr, i + 1))

RECURSIVE SumAy(_, _)
SumAy(fr, i) == IF i > Len(fr) THEN 0 ELSE Add(fr[i].fay, SumAy(fr, i + 1))

\* C4, as stated: when calculateForces returns, the sum of ax and the sum of
\* ay over all particles are zero.
C4_ForcesCancel == SumAx(lastFrame, 1) = 0 /\ SumAy(lastFrame, 1) = 0

BounceRule(pos, vel, newPos, newVel, radius, dim, low) ==
  /\ Lt(pos, radius) => (newPos = radius /\ newVel = PMul(vel, restitution))
  /\ (Gt(pos, dim - radius) /\ low) =>
       (newPos = dim - radius /\ newVel = PMul(vel, restitution))
  /\ (Ge(pos, radius) /\ Le(pos, dim - radius)) => (newPos = pos /\ newVel = vel)

Steps == {i \in 1..Len(lastFrame) : lastFrame[i].updated}

\* C8, as stated: a moved coordinate below radius becomes radius, one above
\* dimension - radius becomes dimension - radius, the velocity component
\* becomes -0.9 times itself; a coordinate inside is left with its velocity.
C8_BounceEitherSide ==
  \A i \in Steps :
    /\ BounceRule(lastFrame[i].mx, lastFrame[i].cvx, particles[i].x, particles[i].vx,
                  particles[i].radius, canvas.width, TRUE)
    /\ BounceRule(lastFrame[i].my, lastFrame[i].cvy, particles[i].y, particles[i].vy,
                  particles[i].radius, canvas.height, TRUE)

\* C8, amended: the same, the upper clamp applying to a moved coordinate that
\* is above dimension - radius and not below radius.
C8_BounceLowerFirst ==
  \A i \in Steps :
    /\ BounceRule(lastFrame[i].mx, lastFrame[i].cvx, particles[i].x, particles[i].vx,
                  particles[i].radius, canvas.width,
                  ~Lt(lastFrame[i].mx, particles[i].radius))
    /\ BounceRule(lastFrame[i].my, lastFrame[i].cvy, particles[i].y, particles[i].vy,
                  particles[i].radius, canvas.height,
                  ~Lt(lastFrame[i].my, particles[i].radius))

\* C8 witness: a particle moving at a non-zero speed has crossed the upper
\* bound of x without being below radius and has been put on the bound.
C8_Witness ==
  \E i \in Steps :
    /\ Gt(lastFrame[i].mx, canvas.width - particles[i].radius)
    /\ ~Lt(lastFrame[i].mx, particles[i].radius)
    /\ lastFrame[i].cvx # 0
    /\ particles[i].x = canvas.width - particles[i].radius
    /\ particles[i].vx = PMul(lastFrame[i].cvx, restitution)

FiniteParticle(p) ==
  /\ Finite(p.ax) /\ Finite(p.ay)
  /\ Finite(p.vx) /\ Finite(p.vy)
  /\ Finite(p.x) /\ Finite(p.y)

\* C9, as stated: every particle's acceleration, velocity and position stays
\* a finite number after every frame.
C9_ParticlesFinite == \A i \in Particles : FiniteParticle(particles[i])

(***************************************************************************)
(* Root selection (SpecProject)                                            *)
(***************************************************************************)
\* C11: when the discriminant is >= 0 the targetY chosen is one of the two
\* roots, a non-negative one whenever a root is non-negative, and otherwise
\* the larger of the two.
C11_RootChoice ==
  lastSolve.solved =>
    /\ lastSolve.targetY \in {lastSolve.y1, lastSolve.y2}
    /\ (lastSolve.y1 >= 0 \/ lastSolve.y2 >= 0) => lastSolve.targetY >= 0
    /\ (lastSolve.y1 < 0 /\ lastSolve.y2 < 0) =>
         lastSolve.targetY = Max(lastSolve.y1, lastSolve.y2)

\* C11 witness: an offset with one root negative and one positive has been
\* solved and the positive root taken.
C11_Witness ==
  /\ lastSolve.solved
  /\ lastSolve.y2 < 0 /\ lastSolve.y1 > 0
  /\ lastSolve.targetY = lastSolve.y1

(***************************************************************************)
(* The pointer and the accumulators (SpecPointer)                          *)
(***************************************************************************)
FrameStep == frames' = frames + 1

NoPull(fr) ==
  \A i \in {j \in 1..Len(fr) : fr[j].updated} :
    /\ fr[i].pullx = 0 /\ fr[i].pully = 0
    /\ fr[i].ax = fr[i].fax /\ fr[i].ay = fr[i].fay

ProtocolStep ==
  /\ (FrameStep /\ mouse = noPointer) => NoPull(lastFrame')
  /\ mouse' # mouse => (mouse' = noPointer \/ mouse' \in MousePositions)
  /\ FrameStep => mouse' = mouse

\* C12: the pointer is absent at construction; an event leaves it absent or
\* present at the event's coordinates, a frame leaves it as it is; in a frame
\* that runs while it is absent no particle gets a pointer acceleration and
\* the acceleration integrated is the pairwise accumulation.
C12_PointerProtocol == (mouse = noPointer) /\ [][ProtocolStep]_vars

\* C12 witness: the pointer is absent after two pointer events, and the last
\* frame integrated the forces of two particles on each other and no pull.
C12_Witness ==
  /\ events = 2 /\ mouse = noPointer /\ frames = MaxFrames
  /\ NoPull(lastFrame)
  /\ \E i \in 1..Len(lastFrame) : Finite(lastFrame[i].fax) /\ lastFrame[i].fax # 0
  /\ \E i \in 1..Len(particles) : particles[i].x > 4 * PU

(***************************************************************************)
(* The frame loops                                                         *)
(***************************************************************************)
\* C13, as stated: from construction onward each simulator has exactly one
\* pending frame callback.
C13_OnePendingFrame == tnPending = 1 /\ blochPending = 1

(***************************************************************************)
(* Ownership of the state (SpecPage)                                       *)
(***************************************************************************)
IconFrameStep == blochFrames' = blochFrames + 1

\* A step of the resize handler: an event that leaves a fresh collection.
ResizeStep == events' = events + 1 /\ lastFrame' = << >> /\ mouse' = mouse

HandlersKeepOff ==
  /\ Shown(sphere') # Shown(sphere) => IconFrameStep
  /\ mouse' # mouse => (particles' = particles /\ Shown(sphere') = Shown(sphere))
  /\ Target(sphere') # Target(sphere) =>
       (particles' = particles /\ Shown(sphere') = Shown(sphere))

\* C14, as stated: the particle collection and the displayed vector change
\* only in their own frame callbacks; the handlers of resize, mousemove and
\* mouseout leave both unchanged.
C14_OnlyFramesMutate ==
  [][(particles' # particles => FrameStep) /\ HandlersKeepOff]_vars

\* C14, amended: the displayed vector changes only in the icon's frame
\* callback, the particle collection only in the field's frame callback and
\* in the resize handler, which replaces it; mousemove and mouseout change
\* the pointer and the target only.
C14_FramesAndResizeMutate ==
  [][(particles' # particles => (FrameStep \/ ResizeStep)) /\ HandlersKeepOff]_vars

\* C14 witness: after a resize has replaced the particles, a mousemove has
\* set the pointer and the icon's target.
C14_Witness ==
  /\ lastFrame = << >> /\ events = 2
  /\ mouse # noPointer /\ blochMoves = 1
  /\ Target(sphere) # Target(NewSphere)

(***************************************************************************)
(* The connections drawn (SpecTN)                                          *)
(***************************************************************************)
LinesOf(i, j) == {l \in lines : l.i = i /\ l.j = j}

\* The distance of the particles i and j when the last frame began.
DrawnDistance(i, j) ==
  PHypot(Sub(lastFrame[i].fromx, lastFrame[j].fromx),
         Sub(lastFrame[i].fromy, lastFrame[j].fromy))

OppositeCharges(i, j) == lastFrame[i].charge * lastFrame[j].charge < 0

EqualCharges(i, j) == lastFrame[i].charge = lastFrame[j].charge

\* C15: drawConnections draws one line for every pair of particles at a
\* distance strictly below connectionDistance, cyan exactly when the charges
\* are opposite and purple exactly when they are equal, and no line for a
\* pair at connectionDistance or farther.
C15_ConnectionColours ==
  \A i, j \in 1..Len(lastFrame) : i < j =>
    /\ Lt(DrawnDistance(i, j), connectionDistance) =>
         \E l \in lines :
           /\ LinesOf(i, j) = {l}
           /\ l.color = "cyan" <=> OppositeCharges(i, j)
           /\ l.color = "purple" <=> EqualCharges(i, j)
    /\ Ge(DrawnDistance(i, j), connectionDistance) => LinesOf(i, j) = {}

\* C15 witness: a later frame has drawn a cyan line between two oppositely
\* charged particles that were apart and closer than connectionDistance.
C15_Witness ==
  /\ frames >= 2 /\ Len(lastFrame) = 2
  /\ OppositeCharges(1, 2)
  /\ Gt(DrawnDistance(1, 2), 0) /\ Lt(DrawnDistance(1, 2), connectionDistance)
  /\ \E l \in lines : l.color = "cyan"

(***************************************************************************)
(* The easing of the displayed vector (SpecEase)                           *)
(***************************************************************************)
\* In units of 1/SU: two coordinates within EaseTol are equal up to the
\* rounding of a frame; a displayed vector within StuckTol of the opposite of
\* the target is held there by the rounding; within AntipodeTol of it the
\* distance to the target changes by less than the rounding of a frame.
EaseTol == 16
StuckTol == 16
AntipodeTol == 2000

Minus(v) == Vec(-v.x, -v.y, -v.z)

UnitPair(s) == IsUnit(Shown(s)) /\ IsUnit(Target(s))

Eased(s) == Near(Shown(s), Target(s), EaseTol)

OppositeWithin(s, tol) == Near(Shown(s), Minus(Target(s)), tol)

\* Opposite up to one unit of rounding in each coordinate.
Opposite(s) == OppositeWithin(s, 1)

\* The squared distance of u and v is 4 * high + low, in units of 1/SU^2.
HalfOf(d) == Abs(d) \div 2
OddOf(d) == Abs(d) % 2
SquareHigh(d) == HalfOf(d) * HalfOf(d) + HalfOf(d) * OddOf(d)
Gap(u, v) ==
  [high |-> SquareHigh(u.x - v.x) + SquareHigh(u.y - v.y) + SquareHigh(u.z - v.z),
   low |-> OddOf(u.x - v.x) + OddOf(u.y - v.y) + OddOf(u.z - v.z)]
Less(g, h) == g.high < h.high \/ (g.high = h.high /\ g.low < h.low)

\* A step of animate() with the target held: no pointer event.
EaseFrameStep == blochMoves' = blochMoves /\ Target(sphere') = Target(sphere)

\* The frame leaves a unit vector strictly closer to the target.
StepCloser ==
  /\ IsUnit(Shown(sphere'))
  /\ Less(Gap(Shown(sphere'), Target(sphere)), Gap(Shown(sphere), Target(sphere)))

\* A frame from a pair of unit vectors that still differ.
EasingStep == EaseFrameStep /\ UnitPair(sphere) /\ ~Eased(sphere)

ForceTol == 4

\* Where the second particle lay from the first when the last frame began.
FromDx == Sub(lastFrame[2].fromx, lastFrame[1].fromx)
FromDy == Sub(lastFrame[2].fromy, lastFrame[1].fromy)
FromDist == PHypot(FromDx, FromDy)

\* The last frame computed the force of one pair, at a distance that is not
\* zero and within the cutoff.
PairActed ==
  /\ Len(lastFrame) = 2
  /\ Gt(FromDist, 0)
  /\ ~Gt(FromDist, screeningLength * 2)

\* coulombStrength / (dist + softening)^2 * exp(-dist / screeningLength)
Yukawa(dist) ==
  PMul(PDiv(coulombStrength, PMul(Add(dist, softening), Add(dist, softening))),
       ExpNeg(PDiv(dist, screeningLength), PU, PF))

HasMagnitude(fx, fy, mag) == Close(PHypot(fx, fy), mag, ForceTol)

\* <<fx, fy>> points away from, or toward, a particle lying at <<dx, dy>>.
Away(fx, fy, dx, dy) == fx * Sgn(dx) <= 0 /\ fy * Sgn(dy) <= 0
Toward(fx, fy, dx, dy) == fx * Sgn(dx) >= 0 /\ fy * Sgn(dy) >= 0

LikeCharges == lastFrame[1].charge = lastFrame[2].charge

PullTol == 4

\* The distance of the pointer m from where record r's particle lay.
PointerDistance(r, m) == PHypot(Sub(r.fromx, m.x), Sub(r.fromy, m.y))

\* 0.5 * (R - d) / R
PullMagnitude(d) == PMul(PDiv(mouseRadius - d, mouseRadius), PU \div 2)

\* What updateParticle added to the acceleration of record r's particle.
AddedX(r) == Sub(r.ax, r.fax)
AddedY(r) == Sub(r.ay, r.fay)

InReach(d) == Gt(d, 0) /\ Lt(d, mouseRadius)

OutOfReach(d) == d = 0 \/ Ge(d, mouseRadius)

\* The law for one particle, at the distance d from the pointer m.
PullLawAt(r, m, d) ==
  /\ InReach(d) =>
       /\ Close(PHypot(AddedX(r), AddedY(r)), PullMagnitude(d), PullTol)
       /\ Toward(AddedX(r), AddedY(r), Sub(m.x, r.fromx), Sub(m.y, r.fromy))
  /\ OutOfReach(d) => (AddedX(r) = 0 /\ AddedY(r) = 0)

\* Of two particles in reach, the closer one is pulled at least as hard.
CloserHarder(r, q, m) ==
  ( /\ InReach(PointerDistance(r, m)) /\ InReach(PointerDistance(q, m))
    /\ Le(PointerDistance(r, m), PointerDistance(q, m)) )
  => PHypot(AddedX(r), AddedY(r)) + PullTol >= PHypot(AddedX(q), AddedY(q))

PullLaw(fr, m) ==
  \A i \in {k \in 1..Len(fr) : fr[k].updated} :
    /\ Finite(fr[i].fax) /\ Finite(fr[i].fay) =>
         PullLawAt(fr[i], m, PointerDistance(fr[i], m))
    /\ \A j \in {k \in 1..Len(fr) : fr[k].updated} :
         (Finite(fr[i].fax) /\ Finite(fr[j].fax)) => CloserHarder(fr[i], fr[j], m)

\* C18: in a frame with the pointer present, updateParticle adds to a
\* particle at the distance d from the pointer an acceleration toward the
\* pointer of magnitude 0.5 * (R - d) / R when 0 < d < R, larger for the
\* closer particle, and nothing when d = 0 or d >= R.
C18_PointerLaw == [][(FrameStep /\ mouse # noPointer) => PullLaw(lastFrame', mouse)]_vars

\* C18 witness: with the pointer present the last frame pulled a particle in
\* reach and added nothing to a particle lying exactly on the pointer.
C18_Witness ==
  /\ mouse # noPointer /\ events = 1 /\ frames >= 2
  /\ \E i \in 1..Len(lastFrame) :
       /\ lastFrame[i].updated
       /\ InReach(PointerDistance(lastFrame[i], mouse))
       /\ AddedX(lastFrame[i]) # 0
  /\ \E i \in 1..Len(lastFrame) :
       /\ lastFrame[i].updated
       /\ PointerDistance(lastFrame[i], mouse) = 0
       /\ lastFrame[i].ax = lastFrame[i].fax

(***************************************************************************)
(* The accumulators of a frame (SpecTN)                                    *)
(***************************************************************************)
\* The particles with nothing accumulated.
Cleared(ps) == [i \in 1..Len(ps) |-> [ps[i] EXCEPT !.ax = 0, !.ay = 0]]

\* Record r holds, for a particle with the pair forces p.ax and p.ay, the
\* pair forces, the pointer's pull and their difference.
FromPairsAndPointer(r, p, m) ==
  /\ r.fax = p.ax /\ r.fay = p.ay
  /\ <<r.pullx, r.pully>> = PointerPull(p, m)
  /\ r.ax = Sub(p.ax, r.pullx) /\ r.ay = Sub(p.ay, r.pully)

\* What the frame fr added to the velocities came from the pair forces on
\* the particles ps, counted from nothing, and the pull of the pointer m.
NothingCarried(fr, ps, m) ==
  \A i \in {k \in 1..Len(fr) : fr[k].updated} :
    FromPairsAndPointer(fr[i], CalculateForces(Cleared(ps))[i], m)

\* C19: in every frame the (ax, ay) added to a particle's velocity is that
\* frame's pair forces plus that frame's pointer contribution; nothing that
\* an earlier frame accumulated is carried over, whatever frames, pointer
\* events and resizes came before.
C19_AccumulatorsPerFrame ==
  [][FrameStep => NothingCarried(lastFrame', particles, mouse)]_vars

\* C19 witness: the third frame has run with the pointer in reach of a
\* particle that the other particle also acts on.
C19_Witness ==
  /\ frames = 3 /\ events = 1 /\ mouse # noPointer
  /\ \E i \in 1..Len(lastFrame) :
       /\ lastFrame[i].updated
       /\ Finite(lastFrame[i].fax) /\ lastFrame[i].fax # 0
       /\ lastFrame[i].pullx # 0
       /\ particles[i].ax = lastFrame[i].ax

(***************************************************************************)
(* The charges (SpecTN)                                                    *)
(***************************************************************************)
Charged(p) == p.charge \in {1, -1} /\ (p.isCyan <=> p.charge = 1)

\* The step keeps the particles' charges and visual categories.
KeepsCharges ==
  /\ Len(particles') = Len(particles)
  /\ \A i \in Particles :
       /\ particles'[i].charge = particles[i].charge
       /\ particles'[i].isCyan = particles[i].isCyan

\* C20: every particle's charge is +1 or -1 and isCyan holds exactly when it
\* is +1, in every state; no frame and no pointer event changes a particle's
\* charge or category (a resize replaces the particles by new ones).
C20_ChargeInvariant ==
  /\ [](\A i \in Particles : Charged(particles[i]))
  /\ [][~ResizeStep => KeepsCharges]_vars

\* C20 witness: after a pointer event and three frames the field holds one
\* particle of each charge, both moved from where they were created.
C20_Witness ==
  /\ frames = 3 /\ events = 1 /\ mouse # noPointer
  /\ Len(particles) = 2
  /\ particles[1].charge = 1 /\ particles[1].isCyan
  /\ particles[2].charge = -1 /\ ~particles[2].isCyan
  /\ \A i \in Particles : lastFrame[i].updated /\ particles[i].vx # 0

(***************************************************************************)
(* The forces of a frame and the order of its updates (SpecTN)             *)
(***************************************************************************)
\* Record r starts from where particle p lay and holds the pair forces f.
FromStart(r, p, f) ==
  /\ r.fromx = p.x /\ r.fromy = p.y
  /\ r.fax = f.ax /\ r.fay = f.ay

\* Every record of the frame fr, updated or not, holds the pair forces of
\* the particles ps as they lay when the frame began.
ForcesFromStart(fr, ps) ==
  /\ Len(fr) = Len(ps)
  /\ \A i \in 1..Len(ps) : FromStart(fr[i], ps[i], CalculateForces(ps)[i])

\* C21: in every frame the pair forces of every particle are those of the
\* positions all particles had when the frame began, whichever particles
\* the update loop has moved before it reaches a particle.
C21_ForcesBeforeUpdates == [][FrameStep => ForcesFromStart(lastFrame', particles)]_vars

\* The pair forces on the second particle, had the first one been moved
\* before they were computed.
MovedFirst(fr, ps) ==
  CalculateForces(<< [x |-> ps[1].x, y |-> ps[1].y, charge |-> fr[1].charge,
                      ax |-> 0, ay |-> 0],
                     [x |-> fr[2].fromx, y |-> fr[2].fromy, charge |-> fr[2].charge,
                      ax |-> 0, ay |-> 0] >>)

\* C21 witness: the last frame moved the first particle and then the second,
\* and the pair force on the second is not the one it would have had from
\* the first particle's new position.
C21_Witness ==
  /\ frames >= 2 /\ Len(lastFrame) = 2 /\ Len(particles) = 2
  /\ lastFrame[1].updated /\ lastFrame[2].updated
  /\ particles[1].x # lastFrame[1].fromx
  /\ Finite(lastFrame[2].fax) /\ lastFrame[2].fax # 0
  /\ MovedFirst(lastFrame, particles)[2].ax # lastFrame[2].fax

(***************************************************************************)
(* The direction of a bounce (SpecTN)                                      *)
(***************************************************************************)
\* One axis: a coordinate that moved to pos and was put on a wall is left
\* with the velocity vel pointing into the canvas, or zero.
BouncedInward(pos, vel, radius, dim) ==
  /\ Lt(pos, radius) => vel >= 0
  /\ (~Lt(pos, radius) /\ Gt(pos, dim - radius)) => vel <= 0

\* C22, as stated: after every updateParticle a particle that was clamped to
\* a wall on an axis has vx >= 0 at x = radius and vx <= 0 at
\* x = width - radius, and likewise for y.
C22_BounceInward ==
  \A i \in Steps :
    /\ BouncedInward(lastFrame[i].mx, particles[i].vx, particles[i].radius, canvas.width)
    /\ BouncedInward(lastFrame[i].my, particles[i].vy, particles[i].radius, canvas.height)

(***************************************************************************)
(* The root taken (SpecProject)                                            *)
(***************************************************************************)
\* C23: in the branch discriminant >= 0 the first root is never below the
\* second, and the targetY chosen, before the normalisation, is the first
\* root, which is the larger of the two.
C23_LargerRoot ==
  lastSolve.solved =>
    /\ lastSolve.y1 >= lastSolve.y2
    /\ lastSolve.targetY = lastSolve.y1
    /\ lastSolve.targetY = Max(lastSolve.y1, lastSolve.y2)

\* C23 witness: an offset with two distinct negative roots has been solved
\* and the first root taken.
C23_Witness ==
  /\ lastSolve.solved
  /\ lastSolve.y1 < 0 /\ lastSolve.y2 < lastSolve.y1
  /\ lastSolve.targetY = lastSolve.y1

====
